---- MODULE Spec2Model ----
(***************************************************************************)
(* HTTPTransportWin::ExecuteSynchronously (util/net/http_transport_win.cc) *)
(* as a state machine.  One action per WinHTTP / body-stream call; an      *)
(* action that takes a `return` also runs the ScopedHINTERNET destructors. *)
(* Bytes and characters are one-element strings ("CR" and "LF" stand for   *)
(* '\r' and '\n'); texts are sequences of them.                            *)
(***************************************************************************)
EXTENDS Integers, Sequences, FiniteSets, TLC

\* ------------------------------------------------------------------ bounds
\* longest block one GetBytesBuffer call returns in the model
MaxRead == 2
\* number of non-empty body blocks before the stream must end or fail
MaxReads == 2
\* longest block one WinHttpReadData call returns in the model
MaxRespRead == 1
\* number of non-empty response blocks before the response must end or fail
MaxRespReads == 2
\* the chunk framer is run on every block length up to this one, and on the
\* lengths of BoundaryLens
MaxFrameLen == 300

\* ------------------------------------------------------- program constants
\* sizeof(buf.size), sizeof(buf.crlf0), sizeof(buf.data), sizeof(buf.crlf1)
kSizeFieldLen == 8
kCrlfLen == 2
kDataLen == 32768
\* sizeof(read_buffer)
kReadBufferLen == 4096
\* the only status that is a success
kStatusOK == 200

kContentLength == "Content-Length"

CR == "CR"
LF == "LF"
CRLF == <<CR, LF>>

\* ----------------------------------------------------------------- helpers
Min(a, b) == IF a < b THEN a ELSE b

RECURSIVE Flatten(_)
Flatten(ss) == IF ss = <<>> THEN <<>> ELSE Head(ss) \o Flatten(Tail(ss))

RECURSIVE SumLen(_)
SumLen(ss) == IF ss = <<>> THEN 0 ELSE Len(Head(ss)) + SumLen(Tail(ss))

\* ------------------------------------------------------ decimal arithmetic
\* size_t and DWORD values that come from a header are kept as canonical
\* decimal digit strings (no leading zeros), so that no width is lost.
DecDigits == <<"0", "1", "2", "3", "4", "5", "6", "7", "8", "9">>
DecDigitSet == {DecDigits[i] : i \in 1..10}
DecVal(c) == CHOOSE i \in 0..9 : DecDigits[i + 1] = c

RECURSIVE StripZeros(_)
StripZeros(s) ==
  IF Len(s) > 1 /\ Head(s) = "0" THEN StripZeros(Tail(s)) ELSE s

RECURSIVE DecLexLE(_, _)
DecLexLE(a, b) ==
  IF a = <<>> THEN TRUE
  ELSE IF DecVal(Head(a)) < DecVal(Head(b)) THEN TRUE
  ELSE IF DecVal(Head(a)) > DecVal(Head(b)) THEN FALSE
  ELSE DecLexLE(Tail(a), Tail(b))

\* a <= b for canonical digit strings
DecLE(a, b) ==
  \/ Len(a) < Len(b)
  \/ Len(a) = Len(b) /\ DecLexLE(a, b)

RECURSIVE ToDec(_)
ToDec(n) ==
  IF n < 10 THEN <<DecDigits[n + 1]>>
  ELSE Append(ToDec(n \div 10), DecDigits[(n % 10) + 1])

\* std::numeric_limits<size_t>::max() and std::numeric_limits<DWORD>::max()
SizeTMax ==
  <<"1", "8", "4", "4", "6", "7", "4", "4", "0", "7",
    "3", "7", "0", "9", "5", "5", "1", "6", "1", "5">>
DWordMax == <<"4", "2", "9", "4", "9", "6", "7", "2", "9", "5">>

\* base::StringToSizeT(input, &output): the whole input is a non-negative
\* decimal integer that fits size_t.
StringToSizeT(s) ==
  LET wellFormed == Len(s) > 0 /\ \A i \in 1..Len(s) : s[i] \in DecDigitSet
      v == IF wellFormed THEN StripZeros(s) ELSE <<"0">>
  IN [ok |-> wellFormed /\ DecLE(v, SizeTMax), value |-> v]

\* AssignIfInRange(&content_length_dword, content_length)
AssignIfInRange(v) == DecLE(v, DWordMax)

\* WINHTTP_IGNORE_REQUEST_TOTAL_LENGTH
WINHTTP_IGNORE_REQUEST_TOTAL_LENGTH == <<"0">>

\* ------------------------------------------------------------ chunk framer
HexDigits ==
  <<"0", "1", "2", "3", "4", "5", "6", "7",
    "8", "9", "a", "b", "c", "d", "e", "f">>
HexDigitSet == {HexDigits[i] : i \in 1..16}
HexVal(c) == CHOOSE i \in 0..15 : HexDigits[i + 1] = c

RECURSIVE Pow16(_)
Pow16(k) == IF k = 0 THEN 1 ELSE 16 * Pow16(k - 1)

\* _snprintf(buf.size, sizeof(buf.size), "%08x", n): eight lowercase
\* hexadecimal digits, most significant first, zero padded
Snprintf08x(n) ==
  [i \in 1..kSizeFieldLen |->
     HexDigits[((n \div Pow16(kSizeFieldLen - i)) % 16) + 1]]

\* offsets of the fields of buf
OffSize == 0
OffCrlf0 == kSizeFieldLen
OffData == kSizeFieldLen + kCrlfLen
OffCrlf1 == kSizeFieldLen + kCrlfLen + kDataLen
SizeofBuf == kSizeFieldLen + kCrlfLen + kDataLen + kCrlfLen

\* buf after GetBytesBuffer stored `data` in buf.data; the bytes the code
\* did not store are not in the domain (they are uninitialized).
BufAfterRead(data) ==
  [o \in OffData..(OffData + Len(data) - 1) |-> data[o - OffData + 1]]

\* a framer that puts the closing CR LF one byte too far
StoreChunkOffByOne(b, n) ==
  LET digits == Snprintf08x(n)
      dom == (DOMAIN b) \cup (OffSize..(OffData - 1))
                 \cup {OffData + n + 1, OffData + n + 2}
  IN [o \in dom |->
        IF o < OffCrlf0 THEN digits[o - OffSize + 1]
        ELSE IF o = OffCrlf0 THEN CR
        ELSE IF o = OffCrlf0 + 1 THEN LF
        ELSE IF o = OffData + n + 1 THEN CR
        ELSE IF o = OffData + n + 2 THEN LF
        ELSE b[o]]

\* a framer that puts the closing CR LF in buf.crlf1 whatever n is
StoreChunkAtCrlf1(b, n) ==
  LET digits == Snprintf08x(n)
      dom == (DOMAIN b) \cup (OffSize..(OffData - 1))
                 \cup {OffCrlf1, OffCrlf1 + 1}
  IN [o \in dom |->
        IF o < OffCrlf0 THEN digits[o - OffSize + 1]
        ELSE IF o = OffCrlf0 THEN CR
        ELSE IF o = OffCrlf0 + 1 THEN LF
        ELSE IF o = OffCrlf1 THEN CR
        ELSE IF o = OffCrlf1 + 1 THEN LF
        ELSE b[o]]

\* the stores of the chunked branch: buf.size, buf.crlf0 and the CR LF right
\* after the used part of buf.data
StoreChunk(b, n) ==
  LET digits == Snprintf08x(n)
      dom == (DOMAIN b) \cup (OffSize..(OffData - 1))
                 \cup {OffData + n, OffData + n + 1}
  IN [o \in dom |->
        IF o < OffCrlf0 THEN digits[o - OffSize + 1]
        ELSE IF o = OffCrlf0 THEN CR
        ELSE IF o = OffCrlf0 + 1 THEN LF
        ELSE IF o = OffData + n THEN CR
        ELSE IF o = OffData + n + 1 THEN LF
        ELSE b[o]]

\* "Skip leading zeroes in the chunk size": the for loop over size_len
RECURSIVE SizeLenFrom(_, _)
SizeLenFrom(b, size_len) ==
  IF size_len > 1 /\ b[OffSize + kSizeFieldLen - size_len] = "0"
  THEN SizeLenFrom(b, size_len - 1)
  ELSE size_len

\* a size field whose leading zeroes are kept
SizeLenKeepZeroes(b) == kSizeFieldLen

SizeLen(b) == SizeLenFrom(b, kSizeFieldLen)

\* the bytes WinHttpWriteData is handed: write_size bytes from write_start;
\* a byte that was never stored reads as "?"
WriteRange(b, write_start, write_size) ==
  [k \in 1..write_size |->
     IF (write_start + k - 1) \in DOMAIN b
     THEN b[write_start + k - 1] ELSE "?"]

\* ------------------------------------------------------------------ inputs
\* url() after WinHttpCrackUrl split it: lpszHostName, lpszUrlPath,
\* lpszExtraInfo and nScheme.  Besides the http and https URLs there is an
\* ftp URL and a string that is no URL at all (scheme "").
URLs ==
  {[scheme |-> "http", host |-> <<"h">>, path |-> <<"/", "p">>,
    extra |-> <<>>],
   [scheme |-> "https", host |-> <<"h">>, path |-> <<"/", "p">>,
    extra |-> <<"?", "q">>]}
  \cup {[scheme |-> "ftp", host |-> <<"h">>, path |-> <<"/", "p">>,
         extra |-> <<>>],
        [scheme |-> "", host |-> <<>>, path |-> <<>>, extra |-> <<>>]}

\* what WinHttpCrackUrl can return for u: it fails for a string it cannot
\* split and may fail for any other; whether it splits a URL of a scheme
\* other than http and https (INTERNET_SCHEME_FTP) depends on the Windows
\* version.
CrackResults(u) == IF u.scheme = "" THEN {FALSE} ELSE BOOLEAN

\* headers() is a std::map: names are distinct and iterated in ascending
\* order ("Content-Length" < "X-A" < "content-length").
\* Content-Length values: one that is the length of a body of the model,
\* one that is no number, and 4294967296, which fits size_t but not DWORD
ContentLengthValues ==
  {<<"2">>, <<"x">>, <<"4", "2", "9", "4", "9", "6", "7", "2", "9", "6">>}
HeaderChoices ==
  {<<>>} \cup {<<[name |-> kContentLength, value |-> v]>> :
                 v \in ContentLengthValues}
OtherChoices == {<<>>, <<[name |-> "X-A", value |-> <<"v">>]>>}
LowerChoices == {<<>>, <<[name |-> "content-length", value |-> <<"2">>]>>}
HeaderMaps ==
  {a \o b \o c : a \in HeaderChoices, b \in OtherChoices, c \in LowerChoices}

\* The request body is a prefix of BodyPattern repeated, of any length the
\* bounds allow, and the body stream hands it out in blocks of any sizes;
\* the response body is a prefix of RespPattern repeated, likewise.  The
\* request bytes include CR, LF and hexadecimal digits.
BodyPattern == <<"0", CR, LF, "a">>
RespPattern == <<"r", "s", "t">>
RespBytes == {RespPattern[i] : i \in 1..Len(RespPattern)}

\* the k bytes of the stream that follow its first pos bytes
NextBytes(pattern, pos, k) ==
  [j \in 1..k |-> pattern[((pos + j - 1) % Len(pattern)) + 1]]
StatusCodes == {200, 204, 404}
\* what *response_body holds when the call starts
PriorBodies == {<<>>, <<"o">>}

HandleNames == {"session", "connect", "request"}

\* ------------------------------------------------------------------- state
VARIABLES
  pc,            \* the call the thread is about to make; "done" = returned
  url,           \* url()
  headers,       \* headers()
  want_body,     \* response_body != nullptr
  prior_body,    \* what *response_body held when the call started
  dchecks,       \* whether the build compiles DCHECKs in
  read_sizes,    \* the block lengths body_stream()->GetBytesBuffer can return
  handle,        \* session, connect, request: "null", "open" or "closed"
  nclose,        \* WinHttpCloseHandle calls per handle
  trace,         \* the WinHTTP / body stream calls made, in order
  opened,        \* what WinHttpOpenRequest was given
  hdr_i,         \* position of the header loop
  chunked,
  content_length,
  content_length_dword,
  data_bytes,
  write_start,
  write_size,
  buf,
  total_written,
  wire,          \* the byte ranges WinHttpWriteData accepted
  reads,         \* the blocks GetBytesBuffer returned
  status_code,
  response_body,
  resp_reads,    \* the blocks WinHttpReadData returned
  result         \* the value returned, once pc = "done"

vars ==
  <<pc, url, headers, want_body, prior_body, dchecks, read_sizes, handle, nclose, trace, opened,
    hdr_i, chunked, content_length, content_length_dword, data_bytes,
    write_start, write_size, buf, total_written, wire, reads, status_code,
    response_body, resp_reads, result>>

inputs == <<url, headers, want_body, prior_body, dchecks, read_sizes>>
sendVars == <<data_bytes, write_start, write_size, buf, total_written,
              wire, reads>>
planVars == <<hdr_i, chunked, content_length, content_length_dword>>
respVars == <<status_code, response_body, resp_reads>>

Ev(op, arg, ok) == [op |-> op, arg |-> arg, ok |-> ok]

NoRequest == [verb |-> "", object_name |-> <<>>, secure |-> FALSE]

Init ==
  /\ pc = "WinHttpOpen"
  /\ url \in URLs
  /\ headers \in HeaderMaps
  /\ want_body \in BOOLEAN
  /\ dchecks \in BOOLEAN
  /\ read_sizes = 0..Min(MaxRead, kDataLen)
  /\ handle = [h \in HandleNames |-> "null"]
  /\ nclose = [h \in HandleNames |-> 0]
  /\ trace = <<>>
  /\ opened = NoRequest
  /\ hdr_i = 1
  /\ chunked = TRUE
  /\ content_length = <<"0">>
  /\ content_length_dword = <<"0">>
  /\ data_bytes = 0
  /\ write_start = 0
  /\ write_size = 0
  /\ buf = <<>>
  /\ total_written = 0
  /\ wire = <<>>
  /\ reads = <<>>
  /\ status_code = 0
  /\ prior_body \in (IF want_body THEN PriorBodies ELSE {<<>>})
  /\ response_body = prior_body
  /\ resp_reads = <<>>
  /\ result = FALSE

\* ----------------------------------------------------- ScopedHINTERNET
\* ScopedHINTERNETTraits::Free(handle): close a handle that is not null
Free(hs, h) ==
  IF hs.handle[h] # "null"
  THEN [handle |-> [hs.handle EXCEPT ![h] = "closed"],
        nclose |-> [hs.nclose EXCEPT ![h] = @ + 1],
        trace |-> Append(hs.trace, Ev("WinHttpCloseHandle", <<h>>, TRUE))]
  ELSE hs

\* destructors that run in the order of declaration
DestroyForward(hs) == Free(Free(Free(hs, "session"), "connect"), "request")

\* destructors that forget the connection handle
DestroyLeak(hs) == Free(Free(hs, "request"), "session")

\* the destructors at a return: reverse order of declaration
Destroy(hs) == Free(Free(Free(hs, "request"), "connect"), "session")

\* `return r;` after the calls in tr were made, with handles hd
Return(r, hd, tr) ==
  LET after == Destroy([handle |-> hd, nclose |-> nclose, trace |-> tr])
  IN /\ pc' = "done"
     /\ result' = r
     /\ handle' = after.handle
     /\ nclose' = after.nclose
     /\ trace' = after.trace

\* a step that goes on to the call `next`
Goto(next, tr) ==
  /\ pc' = next
  /\ trace' = tr
  /\ UNCHANGED <<handle, nclose, result>>

\* a failed DCHECK in a build with DCHECKs: the process is terminated, no
\* destructor runs and the call never returns
Abort(tr) ==
  /\ pc' = "aborted"
  /\ trace' = tr
  /\ UNCHANGED <<handle, nclose, result>>

\* --------------------------------------------------------- session setup
\* lines 96-105
WinHttpOpen ==
  /\ pc = "WinHttpOpen"
  /\ \E ok \in BOOLEAN :
       LET tr == Append(trace, Ev("WinHttpOpen", <<>>, ok))
       IN IF ok
          THEN /\ handle' = [handle EXCEPT !["session"] = "open"]
               /\ pc' = "WinHttpSetTimeouts"
               /\ trace' = tr
               /\ UNCHANGED <<nclose, result>>
          ELSE Return(FALSE, handle, tr)
  /\ UNCHANGED <<inputs, opened, planVars, sendVars, respVars>>

\* a WinHttpSetTimeouts whose failure is ignored
WinHttpSetTimeoutsIgnored ==
  /\ pc = "WinHttpSetTimeouts"
  /\ \E ok \in BOOLEAN :
       Goto("WinHttpCrackUrl", Append(trace, Ev("WinHttpSetTimeouts", <<>>, ok)))
  /\ UNCHANGED <<inputs, opened, planVars, sendVars, respVars>>

\* lines 107-115
WinHttpSetTimeouts ==
  /\ pc = "WinHttpSetTimeouts"
  /\ \E ok \in BOOLEAN :
       LET tr == Append(trace, Ev("WinHttpSetTimeouts", <<>>, ok))
       IN IF ok THEN Goto("WinHttpCrackUrl", tr)
          ELSE Return(FALSE, handle, tr)
  /\ UNCHANGED <<inputs, opened, planVars, sendVars, respVars>>

\* lines 117-137
WinHttpCrackUrl ==
  /\ pc = "WinHttpCrackUrl"
  /\ \E ok \in CrackResults(url) :
       LET tr == Append(trace, Ev("WinHttpCrackUrl", <<>>, ok))
       IN IF ~ok THEN Return(FALSE, handle, tr)
          ELSE IF dchecks /\ url.scheme \notin {"http", "https"}
          THEN Abort(tr)
          ELSE Goto("WinHttpConnect", tr)
  /\ UNCHANGED <<inputs, opened, planVars, sendVars, respVars>>

\* the locals made from url_components
host_name == url.host
url_path == url.path
extra_info == url.extra

\* lines 139-144
WinHttpConnect ==
  /\ pc = "WinHttpConnect"
  /\ \E ok \in BOOLEAN :
       LET tr == Append(trace, Ev("WinHttpConnect", host_name, ok))
       IN IF ok
          THEN /\ handle' = [handle EXCEPT !["connect"] = "open"]
               /\ pc' = "WinHttpOpenRequest"
               /\ trace' = tr
               /\ UNCHANGED <<nclose, result>>
          ELSE Return(FALSE, handle, tr)
  /\ UNCHANGED <<inputs, opened, planVars, sendVars, respVars>>

\* the pwszObjectName argument of WinHttpOpenRequest
ObjectName == url_path

\* lines 146-158
WinHttpOpenRequest ==
  /\ pc = "WinHttpOpenRequest"
  /\ \E ok \in BOOLEAN :
       LET tr == Append(trace, Ev("WinHttpOpenRequest", ObjectName, ok))
       IN IF ok
          THEN /\ handle' = [handle EXCEPT !["request"] = "open"]
               /\ opened' = [verb |-> "POST",
                             object_name |-> ObjectName,
                             secure |-> (url.scheme = "https")]
               /\ pc' = "Headers"
               /\ trace' = tr
               /\ UNCHANGED <<nclose, result>>
          ELSE /\ Return(FALSE, handle, tr)
               /\ UNCHANGED opened
  /\ UNCHANGED <<inputs, planVars, sendVars, respVars>>

\* ----------------------------------------------------------- header loop
\* the test of line 173
IsContentLength(name) == name = kContentLength

\* header_string of lines 177-178
HeaderString(h) == <<h.name, ":", " ">> \o h.value \o CRLF

\* kTransferEncodingHeader
kTransferEncodingHeader ==
  <<"Transfer-Encoding", ":", " ", "chunked", CR, LF>>

\* lines 173-175: the Content-Length entry sets chunked and content_length
HeaderContentLength ==
  /\ pc = "Headers"
  /\ hdr_i <= Len(headers)
  /\ IsContentLength(headers[hdr_i].name)
  /\ LET parsed == StringToSizeT(headers[hdr_i].value)
     IN /\ chunked' = ~parsed.ok
        /\ content_length' = parsed.value
        /\ hdr_i' = hdr_i + 1
        /\ IF dchecks /\ ~parsed.ok
           THEN Abort(trace)
           ELSE Goto("Headers", trace)
  /\ UNCHANGED <<inputs, opened, content_length_dword, sendVars, respVars>>

\* lines 176-187: any other entry is added to the request
HeaderAdd ==
  /\ pc = "Headers"
  /\ hdr_i <= Len(headers)
  /\ ~IsContentLength(headers[hdr_i].name)
  /\ \E ok \in BOOLEAN :
       LET tr == Append(trace, Ev("WinHttpAddRequestHeaders",
                                  HeaderString(headers[hdr_i]), ok))
       IN IF ok
          THEN /\ hdr_i' = hdr_i + 1
               /\ Goto("Headers", tr)
          ELSE /\ Return(FALSE, handle, tr)
               /\ UNCHANGED hdr_i
  /\ UNCHANGED <<inputs, opened, chunked, content_length,
                 content_length_dword, sendVars, respVars>>

\* lines 191-202: chunked mode adds Transfer-Encoding: chunked
AddTransferEncoding ==
  /\ pc = "Headers"
  /\ hdr_i > Len(headers)
  /\ chunked
  /\ \E ok \in BOOLEAN :
       LET tr == Append(trace, Ev("WinHttpAddRequestHeaders",
                                  kTransferEncodingHeader, ok))
       IN IF ok
          THEN /\ content_length_dword' = WINHTTP_IGNORE_REQUEST_TOTAL_LENGTH
               /\ Goto("WinHttpSendRequest", tr)
          ELSE /\ Return(FALSE, handle, tr)
               /\ UNCHANGED content_length_dword
  /\ UNCHANGED <<inputs, opened, hdr_i, chunked, content_length,
                 sendVars, respVars>>

\* lines 203-205: fixed-length mode declares content_length if it fits
DeclareLength ==
  /\ pc = "Headers"
  /\ hdr_i > Len(headers)
  /\ ~chunked
  /\ content_length_dword' =
       (IF AssignIfInRange(content_length) THEN content_length
        ELSE WINHTTP_IGNORE_REQUEST_TOTAL_LENGTH)
  /\ Goto("WinHttpSendRequest", trace)
  /\ UNCHANGED <<inputs, opened, hdr_i, chunked, content_length,
                 sendVars, respVars>>

\* lines 207-216
WinHttpSendRequest ==
  /\ pc = "WinHttpSendRequest"
  /\ \E ok \in BOOLEAN :
       LET tr == Append(trace, Ev("WinHttpSendRequest",
                                  content_length_dword, ok))
       IN IF ok THEN Goto("GetBytesBuffer", tr)
          ELSE Return(FALSE, handle, tr)
  /\ UNCHANGED <<inputs, opened, planVars, sendVars, respVars>>

\* -------------------------------------------------------------- send loop
\* lines 244-278: what one pass of the loop prepares for WinHttpWriteData
\* after GetBytesBuffer returned `data`
Frame(chunk, data) ==
  LET n == Len(data)
      b0 == BufAfterRead(data)
  IN IF chunk
     THEN LET b1 == StoreChunk(b0, n)
              size_len == SizeLen(b1)
          IN [buf |-> b1,
              write_start |-> OffCrlf0 - size_len,
              write_size |-> size_len + kCrlfLen + n + kCrlfLen]
     ELSE [buf |-> b0, write_start |-> OffData, write_size |-> n]

\* a loop that is left after its first pass
LoopEndAtOnce(n, written, tr) ==
  IF ~chunked /\ dchecks /\ ToDec(written) # content_length
  THEN Abort(tr)
  ELSE Goto("WinHttpReceiveResponse", tr)

\* a loop that goes on after the end of the stream
LoopEndNever(n, written, tr) ==
  IF n >= 0 THEN Goto("GetBytesBuffer", tr)
  ELSE IF ~chunked /\ dchecks /\ ToDec(written) # content_length
  THEN Abort(tr)
  ELSE Goto("WinHttpReceiveResponse", tr)

\* line 294 and lines 296-298: `while (data_bytes > 0)`, then the DCHECK_EQ
\* of the fixed-length mode
LoopEnd(n, written, tr) ==
  IF n > 0 THEN Goto("GetBytesBuffer", tr)
  ELSE IF ~chunked /\ dchecks /\ ToDec(written) # content_length
  THEN Abort(tr)
  ELSE Goto("WinHttpReceiveResponse", tr)

\* the blocks body_stream()->GetBytesBuffer can return at this point
BodyBlocks ==
  IF Len(reads) >= MaxReads THEN {<<>>}
  ELSE {NextBytes(BodyPattern, SumLen(reads), k) : k \in read_sizes}

\* a failed read that is taken for the end of the stream
GetBytesBufferFailsAsEof ==
  /\ pc = "GetBytesBuffer"
  /\ LET f == Frame(chunked, <<>>)
         tr == Append(trace, Ev("GetBytesBuffer", <<>>, FALSE))
     IN /\ data_bytes' = 0
        /\ buf' = f.buf
        /\ write_start' = f.write_start
        /\ write_size' = f.write_size
        /\ IF f.write_size # 0
           THEN Goto("WinHttpWriteData", tr)
           ELSE LoopEnd(0, total_written, tr)
  /\ UNCHANGED <<inputs, opened, planVars, total_written, wire, reads,
                 respVars>>

\* lines 234-237: the stream fails
GetBytesBufferFails ==
  /\ pc = "GetBytesBuffer"
  /\ Return(FALSE, handle, Append(trace, Ev("GetBytesBuffer", <<>>, FALSE)))
  /\ UNCHANGED <<inputs, opened, planVars, sendVars, respVars>>

\* lines 234-284: a block is read and framed; line 284 skips an empty write
GetBytesBuffer ==
  /\ pc = "GetBytesBuffer"
  /\ \E data \in BodyBlocks :
       LET f == Frame(chunked, data)
           tr == Append(trace, Ev("GetBytesBuffer", <<>>, TRUE))
       IN /\ reads' = Append(reads, data)
          /\ data_bytes' = Len(data)
          /\ buf' = f.buf
          /\ write_start' = f.write_start
          /\ write_size' = f.write_size
          /\ IF f.write_size # 0
             THEN Goto("WinHttpWriteData", tr)
             ELSE LoopEnd(Len(data), total_written, tr)
  /\ UNCHANGED <<inputs, opened, planVars, total_written, wire, respVars>>

\* lines 285-294
WinHttpWriteData ==
  /\ pc = "WinHttpWriteData"
  /\ \E ok \in BOOLEAN :
       LET tr == Append(trace, Ev("WinHttpWriteData", <<>>, ok))
       IN IF ok
          THEN /\ wire' = Append(wire, WriteRange(buf, write_start, write_size))
               /\ total_written' = total_written + write_size
               /\ LoopEnd(data_bytes, total_written + write_size, tr)
          ELSE /\ Return(FALSE, handle, tr)
               /\ UNCHANGED <<wire, total_written>>
  /\ UNCHANGED <<inputs, opened, planVars, data_bytes, write_start,
                 write_size, buf, reads, respVars>>

\* --------------------------------------------------------------- response
\* a WinHttpReceiveResponse after which the output is cleared at once
WinHttpReceiveResponseClears ==
  /\ pc = "WinHttpReceiveResponse"
  /\ \E ok \in BOOLEAN :
       LET tr == Append(trace, Ev("WinHttpReceiveResponse", <<>>, ok))
       IN IF ok
          THEN /\ Goto("WinHttpQueryHeaders", tr)
               /\ response_body' = <<>>
          ELSE /\ Return(FALSE, handle, tr)
               /\ UNCHANGED response_body
  /\ UNCHANGED <<inputs, opened, planVars, sendVars, status_code, resp_reads>>

\* lines 300-303
WinHttpReceiveResponse ==
  /\ pc = "WinHttpReceiveResponse"
  /\ \E ok \in BOOLEAN :
       LET tr == Append(trace, Ev("WinHttpReceiveResponse", <<>>, ok))
       IN IF ok THEN Goto("WinHttpQueryHeaders", tr)
          ELSE Return(FALSE, handle, tr)
  /\ UNCHANGED <<inputs, opened, planVars, sendVars, respVars>>

\* a clear() that was left out
NotCleared(s) == s

\* response_body->clear()
Cleared(s) == <<>>

\* a status test that lets every 2xx through
StatusAcceptedAny2xx(code) == code >= 200 /\ code < 300

\* the test of line 319
StatusAccepted(code) == code = kStatusOK

\* lines 308-317: the status cannot be queried
WinHttpQueryHeadersFails ==
  /\ pc = "WinHttpQueryHeaders"
  /\ Return(FALSE, handle,
            Append(trace, Ev("WinHttpQueryHeaders", <<>>, FALSE)))
  /\ UNCHANGED <<inputs, opened, planVars, sendVars, respVars>>

\* lines 305-325 and 344: the status is read and checked; with a
\* response_body the string is cleared before the first read
WinHttpQueryHeaders ==
  /\ pc = "WinHttpQueryHeaders"
  /\ \E code \in StatusCodes :
       LET tr == Append(trace, Ev("WinHttpQueryHeaders", <<>>, TRUE))
       IN /\ status_code' = code
          /\ IF ~StatusAccepted(code)
             THEN /\ Return(FALSE, handle, tr)
                  /\ UNCHANGED response_body
             ELSE IF want_body
             THEN /\ response_body' = Cleared(response_body)
                  /\ Goto("WinHttpReadData", tr)
             ELSE /\ Return(TRUE, handle, tr)
                  /\ UNCHANGED response_body
  /\ UNCHANGED <<inputs, opened, planVars, sendVars, resp_reads>>

\* the blocks WinHttpReadData can store in read_buffer at this point
RespBlocks ==
  IF Len(resp_reads) >= MaxRespReads THEN {<<>>}
  ELSE {NextBytes(RespPattern, SumLen(resp_reads), k) :
          k \in 0..Min(MaxRespRead, kReadBufferLen)}

\* lines 334-338: the read fails
WinHttpReadDataFails ==
  /\ pc = "WinHttpReadData"
  /\ Return(FALSE, handle, Append(trace, Ev("WinHttpReadData", <<>>, FALSE)))
  /\ UNCHANGED <<inputs, opened, planVars, sendVars, respVars>>

\* line 341: `while (bytes_read > 0)`
MoreToRead(bytes_read) == bytes_read > 0

\* lines 332-344: a block is appended; a block of 0 bytes ends the call
WinHttpReadData ==
  /\ pc = "WinHttpReadData"
  /\ \E block \in RespBlocks :
       LET tr == Append(trace, Ev("WinHttpReadData", <<>>, TRUE))
       IN /\ response_body' = response_body \o block
          /\ resp_reads' = Append(resp_reads, block)
          /\ IF MoreToRead(Len(block))
             THEN Goto("WinHttpReadData", tr)
             ELSE Return(TRUE, handle, tr)
  /\ UNCHANGED <<inputs, opened, planVars, sendVars, status_code>>

\* ---------------------------------------------------------- specification
Next ==
  \/ WinHttpOpen
  \/ WinHttpSetTimeouts
  \/ WinHttpCrackUrl
  \/ WinHttpConnect
  \/ WinHttpOpenRequest
  \/ HeaderContentLength
  \/ HeaderAdd
  \/ AddTransferEncoding
  \/ DeclareLength
  \/ WinHttpSendRequest
  \/ GetBytesBufferFails
  \/ GetBytesBuffer
  \/ WinHttpWriteData
  \/ WinHttpReceiveResponse
  \/ WinHttpQueryHeadersFails
  \/ WinHttpQueryHeaders
  \/ WinHttpReadDataFails
  \/ WinHttpReadData

Spec == Init /\ [][Next]_vars

\* ------------------------------------------- the framer on every length
\* The state in which WinHttpSendRequest has just succeeded for a request
\* without headers (chunked mode), with a body stream that can return a
\* block of any length of FrameLens, up to the whole of buf.data.
BoundaryLens == {4095, 4096, kDataLen - 1, kDataLen}
FrameLens == (0..Min(MaxFrameLen, kDataLen)) \cup BoundaryLens

FrameInit ==
  /\ pc = "GetBytesBuffer"
  /\ url = [scheme |-> "http", host |-> <<"h">>, path |-> <<"/", "p">>,
            extra |-> <<>>]
  /\ headers = <<>>
  /\ want_body = FALSE
  /\ prior_body = <<>>
  /\ dchecks \in BOOLEAN
  /\ read_sizes = FrameLens
  /\ handle = [h \in HandleNames |-> "open"]
  /\ nclose = [h \in HandleNames |-> 0]
  /\ trace = <<Ev("WinHttpOpen", <<>>, TRUE),
               Ev("WinHttpSetTimeouts", <<>>, TRUE),
               Ev("WinHttpCrackUrl", <<>>, TRUE),
               Ev("WinHttpConnect", <<"h">>, TRUE),
               Ev("WinHttpOpenRequest", <<"/", "p">>, TRUE),
               Ev("WinHttpAddRequestHeaders", kTransferEncodingHeader, TRUE),
               Ev("WinHttpSendRequest",
                  WINHTTP_IGNORE_REQUEST_TOTAL_LENGTH, TRUE)>>
  /\ opened = [verb |-> "POST", object_name |-> <<"/", "p">>,
               secure |-> FALSE]
  /\ hdr_i = 1
  /\ chunked = TRUE
  /\ content_length = <<"0">>
  /\ content_length_dword = WINHTTP_IGNORE_REQUEST_TOTAL_LENGTH
  /\ data_bytes = 0
  /\ write_start = 0
  /\ write_size = 0
  /\ buf = <<>>
  /\ total_written = 0
  /\ wire = <<>>
  /\ reads = <<>>
  /\ status_code = 0
  /\ response_body = <<>>
  /\ resp_reads = <<>>
  /\ result = FALSE

\* one pass of the send loop up to the call of WinHttpWriteData
FrameNext ==
  \/ GetBytesBufferFails
  \/ GetBytesBuffer

FrameSpec == FrameInit /\ [][FrameNext]_vars

\* ------------------------------------------------- observations on a run
Returned == pc = "done"

Called(op) == \E i \in 1..Len(trace) : trace[i].op = op
Succeeded(op) == \E i \in 1..Len(trace) : trace[i].op = op /\ trace[i].ok
CountOp(op) == Cardinality({i \in 1..Len(trace) : trace[i].op = op})

\* the header lines the request accepted, in order
AttachedLines ==
  LET added == SelectSeq(trace,
                 LAMBDA e : e.op = "WinHttpAddRequestHeaders" /\ e.ok)
  IN [i \in 1..Len(added) |-> added[i].arg]

\* every header was handled and the mode was declared
HeadersPlanned ==
  pc = "WinHttpSendRequest" \/ Called("WinHttpSendRequest")

\* the send loop ran to its end
SendLoopCompleted ==
  pc = "WinHttpReceiveResponse" \/ Called("WinHttpReceiveResponse")

\* ------------------------- a reader of chunked transfer coding (RFC 7230)
RECURSIVE HexPrefixLen(_)
HexPrefixLen(s) ==
  IF s # <<>> /\ Head(s) \in HexDigitSet
  THEN 1 + HexPrefixLen(Tail(s)) ELSE 0

RECURSIVE HexValue(_, _)
HexValue(s, acc) ==
  IF s = <<>> THEN acc ELSE HexValue(Tail(s), 16 * acc + HexVal(Head(s)))

Drop(s, k) == SubSeq(s, k + 1, Len(s))

\* reads chunks from s; acc is the body decoded so far.  The result says
\* whether s is a complete chunked body with nothing after the last chunk.
RECURSIVE ParseChunks(_, _)
ParseChunks(s, acc) ==
  LET d == HexPrefixLen(s)
      n == HexValue(SubSeq(s, 1, d), 0)
      afterSize == Drop(s, d + 2)
  IN IF d = 0 \/ Len(s) < d + 2 \/ SubSeq(s, d + 1, d + 2) # CRLF
     THEN [ok |-> FALSE, body |-> acc]
     ELSE IF n = 0
     THEN [ok |-> afterSize = CRLF, body |-> acc]
     ELSE IF Len(afterSize) < n + 2 \/ SubSeq(afterSize, n + 1, n + 2) # CRLF
     THEN [ok |-> FALSE, body |-> acc]
     ELSE ParseChunks(Drop(afterSize, n + 2), acc \o SubSeq(afterSize, 1, n))

TerminalChunk == <<"0", CR, LF, CR, LF>>

\* ------------------------------------------------------------------ claims
RequiredCalls ==
  {"WinHttpOpen", "WinHttpSetTimeouts", "WinHttpCrackUrl", "WinHttpConnect",
   "WinHttpOpenRequest", "WinHttpSendRequest", "GetBytesBuffer",
   "WinHttpReceiveResponse", "WinHttpQueryHeaders"}

\* C1: the call returns true only when the status queried is exactly 200 and
\* every call made before it (session, timeouts, URL crack, connect, open
\* request, headers, send, body reads and writes, receive, status query)
\* succeeded; with any other status, 204 included, it returns false.
C1_SuccessOnlyOn200 ==
  /\ (Returned /\ result) =>
       /\ status_code = 200
       /\ \A i \in 1..Len(trace) : trace[i].ok
       /\ \A op \in RequiredCalls : Succeeded(op)
  /\ (Returned /\ Succeeded("WinHttpQueryHeaders") /\ status_code # 200) =>
       ~result

C1_Witness ==
  /\ Returned /\ result /\ status_code = 200
  /\ Len(wire) > 1 /\ Len(headers) > 1

\* C2: in chunked mode, once the send loop has run to its end, the writes
\* concatenated are a complete chunked body that decodes to exactly the
\* bytes read, in order; there is one write per read, the terminal chunk
\* is written once and last; an empty body gives that one write only.
C2_ChunkedRoundTrip ==
  (chunked /\ SendLoopCompleted) =>
    /\ ParseChunks(Flatten(wire), <<>>) = [ok |-> TRUE, body |-> Flatten(reads)]
    /\ Len(wire) = Len(reads)
    /\ wire[Len(wire)] = TerminalChunk
    /\ Cardinality({i \in 1..Len(wire) : wire[i] = TerminalChunk}) = 1
    /\ (Flatten(reads) = <<>> => wire = <<TerminalChunk>>)

C2_Witness ==
  /\ chunked /\ SendLoopCompleted
  /\ Len(reads) = 3
  /\ reads[1] = <<"0", CR>>
  /\ Len(reads[2]) = 1

NonEmpty(ss) == SelectSeq(ss, LAMBDA b : b # <<>>)
Range(f) == {f[i] : i \in DOMAIN f}

\* C3: in fixed-length mode an empty read gives no write, every other read
\* is written as its bytes alone, and when the send loop has run to its end
\* the bytes written add up to the declared Content-Length.
C3_FixedLengthSum ==
  (~chunked /\ SendLoopCompleted) =>
    /\ wire = NonEmpty(reads)
    /\ ToDec(SumLen(wire)) = content_length

\* what the fixed-length branch does whatever the body stream supplies: one
\* unframed write per non-empty read
C3_Unframed ==
  (~chunked /\ SendLoopCompleted) =>
    /\ wire = NonEmpty(reads)
    /\ total_written = SumLen(reads)

AcquireCall ==
  [session |-> "WinHttpOpen", connect |-> "WinHttpConnect",
   request |-> "WinHttpOpenRequest"]

CloseCount(h) ==
  Cardinality({i \in 1..Len(trace) :
                 trace[i].op = "WinHttpCloseHandle" /\ trace[i].arg = <<h>>})

\* C4: when the call has returned, with success or after a failure at any
\* step, each handle that was acquired has been closed exactly once and a
\* handle that was never acquired has not been closed; nothing is closed
\* before the return.
C4_HandlesReleasedOnce ==
  /\ Returned =>
       \A h \in HandleNames :
         /\ nclose[h] = (IF Succeeded(AcquireCall[h]) THEN 1 ELSE 0)
         /\ CloseCount(h) = nclose[h]
         /\ handle[h] # "open"
  /\ ~Returned => \A h \in HandleNames : nclose[h] = 0

C4_Witness ==
  /\ Returned /\ ~result
  /\ \A h \in HandleNames : nclose[h] = 1
  /\ Called("WinHttpReadData")

HasContentLength ==
  \E i \in 1..Len(headers) : headers[i].name = "Content-Length"

HasBadContentLength ==
  \E i \in 1..Len(headers) :
    /\ headers[i].name = "Content-Length"
    /\ ~StringToSizeT(headers[i].value).ok

ForwardedLines ==
  LET others == SelectSeq(headers, LAMBDA h : h.name # "Content-Length")
  IN [i \in 1..Len(others) |-> HeaderString(others[i])]

\* C5: once the headers are planned, the lines attached are one line per
\* caller header other than Content-Length, plus Transfer-Encoding: chunked
\* exactly when the caller gave no Content-Length; a Content-Length that
\* parses selects fixed-length mode and is not attached.
C5_HeaderPlanning ==
  HeadersPlanned =>
    /\ Len(AttachedLines) =
         Len(ForwardedLines) + (IF HasContentLength THEN 0 ELSE 1)
    /\ Range(AttachedLines) =
         Range(ForwardedLines) \cup
           (IF HasContentLength THEN {} ELSE {kTransferEncodingHeader})
    /\ (HasContentLength /\ ~HasBadContentLength) => ~chunked

\* C6: the object name the request is opened with is the URL path followed
\* by the extra info (query and fragment).
C6_TargetHasExtraInfo ==
  Succeeded("WinHttpOpenRequest") =>
    opened.object_name = url.path \o url.extra

\* C7: when the call returns false, the response body output holds no byte
\* of the response, also when a read failed after earlier reads succeeded.
C7_NoPartialBody ==
  (Returned /\ ~result) =>
    \A i \in 1..Len(response_body) : response_body[i] \notin RespBytes

\* C8: with a response_body and status 200, a successful call returns the
\* bytes of the response reads in order, up to the first empty read, and
\* nothing of the previous contents; no read follows an empty read; without
\* a response_body no response read is made.
C8_ResponseBody ==
  /\ (Returned /\ result /\ want_body) =>
       /\ response_body = Flatten(resp_reads)
       /\ resp_reads # <<>>
       /\ resp_reads[Len(resp_reads)] = <<>>
  /\ \A i \in 1..(Len(resp_reads) - 1) : resp_reads[i] # <<>>
  /\ (resp_reads # <<>> /\ resp_reads[Len(resp_reads)] = <<>>) =>
       /\ Returned /\ result
       /\ CountOp("WinHttpReadData") = Len(resp_reads)
  /\ ~want_body =>
       /\ ~Called("WinHttpReadData")
       /\ resp_reads = <<>>
       /\ response_body = prior_body

C8_Witness ==
  /\ Returned /\ result /\ want_body
  /\ prior_body # <<>>
  /\ Len(resp_reads) = 3

\* C9: with a Content-Length that does not parse, the call makes no network
\* call (connect, send request, write data, receive response) and does not
\* fall back to chunked mode.
C9_FailFast ==
  HasBadContentLength =>
    /\ \A op \in {"WinHttpConnect", "WinHttpSendRequest",
                  "WinHttpWriteData", "WinHttpReceiveResponse"} : ~Called(op)
    /\ kTransferEncodingHeader \notin Range(AttachedLines)

NameOfLine(line) == line[1]

\* C10: once the headers are planned, a header whose name is Content-Length
\* in any letter case, with a value that is a length, has selected
\* fixed-length mode and no line with its name is attached.
C10_AnyCaseIntercepted ==
  HeadersPlanned =>
    \A i \in 1..Len(headers) :
      (/\ headers[i].name \in {"Content-Length", "content-length",
                               "CONTENT-LENGTH"}
       /\ StringToSizeT(headers[i].value).ok) =>
        /\ ~chunked
        /\ \A k \in 1..Len(AttachedLines) :
             NameOfLine(AttachedLines[k]) # headers[i].name


\* C11: for a URL that cannot be split or whose scheme is neither http nor
\* https the call fails at the URL crack: it returns false there, no
\* connection is opened and no request is created.
C11_BadUrlFailsAtCrack ==
  (url.scheme \notin {"http", "https"}) =>
    /\ ~Called("WinHttpConnect")
    /\ ~Called("WinHttpOpenRequest")
    /\ Called("WinHttpCrackUrl") => (Returned /\ ~result)

\* the shortest lowercase hexadecimal numeral of n
RECURSIVE MinHex(_)
MinHex(n) ==
  IF n < 16 THEN <<HexDigits[n + 1]>>
  ELSE Append(MinHex(n \div 16), HexDigits[(n % 16) + 1])

\* C12: in chunked mode, for a read of n bytes (0 <= n <= 32768) the bytes
\* handed to WinHttpWriteData are the shortest lowercase hexadecimal numeral
\* of n, CR LF, the n bytes just read, CR LF; their number is the number of
\* digits + 2 + n + 2.
C12_ChunkFraming ==
  (pc = "WinHttpWriteData" /\ chunked) =>
    LET n == data_bytes
        data == reads[Len(reads)]
    IN /\ Len(data) = n
       /\ WriteRange(buf, write_start, write_size) =
            MinHex(n) \o <<"CR", "LF">> \o data \o <<"CR", "LF">>
       /\ write_size = Len(MinHex(n)) + 2 + n + 2

C12_Witness ==
  /\ pc = "WinHttpWriteData" /\ chunked
  /\ data_bytes = 32768
  /\ write_size = 4 + 2 + 32768 + 2

\* C18: in chunked mode, for a read of n bytes (0 <= n <= 32768) every byte
\* the branch stores and every byte of the range handed to WinHttpWriteData
\* lies in the 8 + 2 + 32768 + 2 bytes of buf, the range starts size_len
\* bytes before buf.crlf0 with 1 <= size_len <= 8, every byte of it was
\* stored, and the closing CR LF leaves the n data bytes as they were read.
C18_BufferBounds ==
  (pc = "WinHttpWriteData" /\ chunked) =>
    LET n == data_bytes
        data == reads[Len(reads)]
        size_len == 8 - write_start
    IN /\ DOMAIN buf \subseteq 0..(8 + 2 + 32768 + 2 - 1)
       /\ size_len >= 1 /\ size_len <= 8
       /\ write_start + write_size <= 8 + 2 + 32768 + 2
       /\ \A o \in write_start..(write_start + write_size - 1) :
            o \in DOMAIN buf
       /\ \A i \in 1..n : buf[10 + i - 1] = data[i]
       /\ buf[10 + n] = "CR" /\ buf[10 + n + 1] = "LF"

C18_Witness ==
  /\ pc = "WinHttpWriteData" /\ chunked
  /\ data_bytes = 32768
  /\ (8 + 2 + 32768 + 1) \in DOMAIN buf

\* the place of a call in the order of the steps
Rank(op) ==
  CASE op = "WinHttpOpen" -> 1
    [] op = "WinHttpSetTimeouts" -> 2
    [] op = "WinHttpCrackUrl" -> 3
    [] op = "WinHttpConnect" -> 4
    [] op = "WinHttpOpenRequest" -> 5
    [] op = "WinHttpAddRequestHeaders" -> 6
    [] op = "WinHttpSendRequest" -> 7
    [] op = "GetBytesBuffer" -> 8
    [] op = "WinHttpWriteData" -> 8
    [] op = "WinHttpReceiveResponse" -> 9
    [] op = "WinHttpQueryHeaders" -> 10
    [] op = "WinHttpReadData" -> 11
    [] op = "WinHttpCloseHandle" -> 12

OnlyClosesAfter(i) ==
  \A j \in (i + 1)..Len(trace) : trace[j].op = "WinHttpCloseHandle"

\* C13: the calls are made in the order session, timeouts, URL crack,
\* connect, open request, headers, send request, body reads and writes,
\* receive, status query, response reads, each single step once; after a
\* call that failed, and after a status other than 200, nothing but the
\* release of the handles follows and the call has returned false.
C13_StrictAbort ==
  /\ \A i \in 1..(Len(trace) - 1) : Rank(trace[i].op) <= Rank(trace[i + 1].op)
  /\ \A op \in {"WinHttpOpen", "WinHttpSetTimeouts", "WinHttpCrackUrl",
                "WinHttpConnect", "WinHttpOpenRequest", "WinHttpSendRequest",
                "WinHttpReceiveResponse", "WinHttpQueryHeaders"} :
       CountOp(op) <= 1
  /\ \A i \in 1..Len(trace) :
       ~trace[i].ok => (Returned /\ ~result /\ OnlyClosesAfter(i))
  /\ (Succeeded("WinHttpQueryHeaders") /\ status_code # 200) =>
       (Returned /\ ~result /\ ~Called("WinHttpReadData"))

C13_Witness ==
  /\ Returned /\ ~result
  /\ Len(wire) = 1
  /\ \E i \in 1..Len(trace) :
       trace[i].op = "WinHttpWriteData" /\ ~trace[i].ok

\* what WinHttpSendRequest was given as dwTotalLength
DeclaredLength ==
  LET sent == SelectSeq(trace, LAMBDA e : e.op = "WinHttpSendRequest")
  IN sent[1].arg

\* C14: when the request is sent, in fixed-length mode the total length
\* declared is the parsed Content-Length exactly, and "ignore the total
\* length" is declared only in chunked mode with Transfer-Encoding: chunked
\* attached.
C14_DeclarationMatchesMode ==
  Called("WinHttpSendRequest") =>
    /\ ~chunked => DeclaredLength = content_length
    /\ DeclaredLength = WINHTTP_IGNORE_REQUEST_TOTAL_LENGTH =>
         (chunked /\ kTransferEncodingHeader \in Range(AttachedLines))
    /\ chunked =>
         /\ DeclaredLength = WINHTTP_IGNORE_REQUEST_TOTAL_LENGTH
         /\ kTransferEncodingHeader \in Range(AttachedLines)

\* C15: after GetBytesBuffer failed, in either mode and at any pass of the
\* loop, the call has returned false and nothing but the release of the
\* handles follows: no write (no terminal chunk in chunked mode), no other
\* read, no receive.
C15_ReadFailureAborts ==
  \A i \in 1..Len(trace) :
    (trace[i].op = "GetBytesBuffer" /\ ~trace[i].ok) =>
      /\ Returned /\ ~result
      /\ OnlyClosesAfter(i)
      /\ ~Called("WinHttpReceiveResponse")
      /\ Len(wire) = Len(reads)
      /\ \A k \in 1..Len(reads) : reads[k] # <<>>
      /\ \A k \in 1..Len(wire) : wire[k] # <<"0", "CR", "LF", "CR", "LF">>

C15_Witness ==
  /\ Returned /\ ~result /\ chunked
  /\ Len(wire) = 1
  /\ \E i \in 1..Len(trace) : trace[i].op = "GetBytesBuffer" /\ ~trace[i].ok

Before(i, op) == \E j \in 1..(i - 1) : trace[j].op = op /\ trace[j].ok

\* C16: a body read or write comes only after WinHttpSendRequest succeeded;
\* no header line is attached after WinHttpSendRequest and every caller
\* header other than Content-Length is attached before it;
\* WinHttpReceiveResponse comes only after the loop handled the empty read
\* (in chunked mode: wrote the terminal chunk); the status query and the
\* response reads come only after WinHttpReceiveResponse succeeded.
C16_EventOrder ==
  /\ \A i \in 1..Len(trace) :
       /\ trace[i].op \in {"GetBytesBuffer", "WinHttpWriteData"} =>
            Before(i, "WinHttpSendRequest")
       /\ trace[i].op = "WinHttpAddRequestHeaders" =>
            \A j \in 1..(i - 1) : trace[j].op # "WinHttpSendRequest"
       /\ trace[i].op \in {"WinHttpQueryHeaders", "WinHttpReadData"} =>
            Before(i, "WinHttpReceiveResponse")
       /\ trace[i].op = "WinHttpReceiveResponse" =>
            /\ trace[i - 1].ok
            /\ trace[i - 1].op =
                 (IF chunked THEN "WinHttpWriteData" ELSE "GetBytesBuffer")
  /\ Called("WinHttpSendRequest") =>
       \A k \in 1..Len(headers) :
         headers[k].name # "Content-Length" =>
           HeaderString(headers[k]) \in Range(AttachedLines)
  /\ Called("WinHttpReceiveResponse") =>
       /\ reads # <<>> /\ reads[Len(reads)] = <<>>
       /\ chunked => (wire # <<>> /\ wire[Len(wire)] = TerminalChunk)

C16_Witness ==
  /\ Returned /\ result /\ want_body /\ ~chunked
  /\ Len(reads) = 3
  /\ Len(AttachedLines) = 2
  /\ resp_reads # <<>>

\* C17: the send loop is left once, after the first read that returns 0 or
\* at the first failure: no read follows an empty read, every pass makes one
\* read and at most one write, so there is at most one read more than there
\* are non-empty blocks, and a write carries the bytes of one read, at most
\* 32768.
C17_SendLoopOnce ==
  /\ \A i \in 1..(Len(reads) - 1) : reads[i] # <<>>
  /\ (reads # <<>> /\ reads[Len(reads)] = <<>>) =>
       /\ pc # "GetBytesBuffer"
       /\ CountOp("GetBytesBuffer") = Len(reads)
  /\ CountOp("GetBytesBuffer") <= Len(NonEmpty(reads)) + 1
  /\ CountOp("WinHttpReceiveResponse") <= 1
  /\ Len(wire) <= Len(reads)
  /\ \A i \in 1..Len(wire) :
       LET data == IF chunked THEN reads[i] ELSE NonEmpty(reads)[i]
       IN /\ Len(data) <= 32768
          /\ Len(wire[i]) <= 8 + 2 + Len(data) + 2
          /\ Len(wire[i]) >= Len(data)
  /\ pc \in {"GetBytesBuffer", "WinHttpWriteData"} =>
       \A i \in 1..Len(trace) : trace[i].ok
  /\ SendLoopCompleted => (reads # <<>> /\ reads[Len(reads)] = <<>>)

C17_Witness ==
  /\ SendLoopCompleted
  /\ Len(reads) = 3
  /\ CountOp("GetBytesBuffer") = 3

CloseOrder(h) ==
  CASE h = <<"request">> -> 1
    [] h = <<"connect">> -> 2
    [] h = <<"session">> -> 3

\* C19: the handles are released in the order request, connection, session
\* (a handle before the handle it was created from), and no call of any
\* kind is made after a handle was released except further releases.
C19_ReleaseOrder ==
  \A i \in 1..Len(trace) :
    trace[i].op = "WinHttpCloseHandle" =>
      /\ OnlyClosesAfter(i)
      /\ \A j \in (i + 1)..Len(trace) :
           CloseOrder(trace[i].arg) < CloseOrder(trace[j].arg)

C19_Witness ==
  /\ Returned
  /\ CountOp("WinHttpCloseHandle") = 3
  /\ trace[Len(trace)].arg = <<"session">>

\* C20: as long as no status of 200 has been read, the response body output
\* is what the caller passed in, in particular after a call that failed at
\* any step up to the status check.
C20_OutputUntouchedBefore200 ==
  ~(Succeeded("WinHttpQueryHeaders") /\ status_code = 200) =>
    response_body = prior_body

C20_Witness ==
  /\ Returned /\ ~result
  /\ status_code = 404
  /\ want_body /\ prior_body # <<>>
  /\ response_body = prior_body

====
